---------------------------- MODULE Spec2Model ----------------------------
(***************************************************************************)
(* A model of translate_folders.py (class CodeTranslator): the lexical     *)
(* scanner (extract_comments, extract_strings, extract_identifiers), the   *)
(* translation adapter (translate_text and what it calls), the positional  *)
(* patch loops of process_file, the line mode of process_markdown_file and *)
(* the file loop of process_directory.                                     *)
(*                                                                         *)
(* A buffer is a sequence of characters; a character is a one-character    *)
(* string, except a source-script character (U+4E00..U+9FFF), which is     *)
(* written by its code point name.  Offsets are 0-based and slices are     *)
(* half-open and clamped, as Python's are.                                 *)
(***************************************************************************)
EXTENDS Integers, Sequences, FiniteSets, TLC

\* ------------------------------------------------------------ characters

\* U+4E2D, a character of the range [一-鿿].
ZH == "U4E2D"
QUOTE == "\""
APOS == "'"
NL == "\n"
TAB == "\t"
BSLASH == "\\"

Chinese == {ZH}
Upper == {"A", "X", "Y"}
Letters == {"a", "b", "c", "d", "e", "f", "g", "h", "i", "k", "l", "n", "o",
            "r", "s", "t", "u", "v", "x", "y"} \cup Upper
Digits == {"0", "1"}
Whitespace == {" ", NL, TAB}

\* [一-鿿]
IsChinese(c) == c \in Chinese
\* \w of a str pattern: letters of any script, digits, underscore
IsWord(c) == c \in Letters \cup Digits \cup Chinese \cup {"_"}
\* \s
IsSpace(c) == c \in Whitespace
\* [一-鿿_a-zA-Z0-9]
IsIdentChar(c) == c \in Chinese \cup Letters \cup Digits \cup {"_"}

Min(a, b) == IF a < b THEN a ELSE b
Max(a, b) == IF a > b THEN a ELSE b

\* ---------------------------------------------------------------- slices

\* buf[i], 0-based
At(buf, i) == buf[i + 1]

\* buf[s:e] with Python's clamping of non-negative indices
Slice(buf, s, e) == SubSeq(buf, Min(s, Len(buf)) + 1, Min(e, Len(buf)))

\* buf[s:]
From(buf, s) == Slice(buf, s, Len(buf))

\* buf.startswith(p, i)
StartsAt(buf, i, p) == /\ i + Len(p) <= Len(buf)
                       /\ \A k \in 1..Len(p) : buf[i + k] = p[k]

\* p in buf
Contains(buf, p) == \E i \in 0..Len(buf) : StartsAt(buf, i, p)

RECURSIVE Concat(_)
Concat(ss) == IF ss = <<>> THEN <<>> ELSE Head(ss) \o Concat(Tail(ss))

\* CodeTranslator.contains_chinese
contains_chinese(text) == \E k \in 1..Len(text) : IsChinese(text[k])

\* str.lstrip(), str.rstrip(), str.strip()
RECURSIVE LStrip(_)
LStrip(s) == IF s # <<>> /\ IsSpace(Head(s)) THEN LStrip(Tail(s)) ELSE s
RECURSIVE RStrip(_)
RStrip(s) == IF s # <<>> /\ IsSpace(s[Len(s)])
             THEN RStrip(SubSeq(s, 1, Len(s) - 1)) ELSE s
Strip(s) == LStrip(RStrip(s))

\* the least j in lo..Len(buf) with P-marker p at j, or -1
RECURSIVE FindFrom(_, _, _)
FindFrom(buf, p, lo) ==
  IF lo + Len(p) > Len(buf) THEN -1
  ELSE IF StartsAt(buf, lo, p) THEN lo
  ELSE FindFrom(buf, p, lo + 1)

\* the index of the first NL at or after lo, or Len(buf): where ".*" stops
RECURSIVE LineEnd(_, _)
LineEnd(buf, lo) ==
  IF lo >= Len(buf) THEN Len(buf)
  ELSE IF At(buf, lo) = NL THEN lo
  ELSE LineEnd(buf, lo + 1)

\* ---------------------------------------------------------- the patterns

\* open [\s\S]*? close, matched at i: the end offset, or -1
MatchBlock(buf, i, open, close) ==
  IF ~StartsAt(buf, i, open) THEN -1
  ELSE LET j == FindFrom(buf, close, i + Len(open))
       IN IF j < 0 THEN -1 ELSE j + Len(close)

\* e, unless a newline lies in lo..hi-1 ("." does not match a newline)
OnOneLine(buf, lo, hi, e) ==
  IF e < 0 \/ \E k \in lo..(hi - 1) : At(buf, k) = NL THEN -1 ELSE e

\* open .*? close, matched at i: as MatchBlock, but "." stops at a newline
MatchInline(buf, i, open, close) ==
  OnOneLine(buf, i + Len(open), FindFrom(buf, close, i + Len(open)),
            MatchBlock(buf, i, open, close))

\* open .* matched at i
MatchLine(buf, i, open) ==
  IF ~StartsAt(buf, i, open) THEN -1 ELSE LineEnd(buf, i + Len(open))

\* (?:\\.|[^"\\])* from position j: the position where the loop stops
RECURSIVE StringBody(_, _)
StringBody(buf, j) ==
  IF j >= Len(buf) THEN j
  ELSE IF At(buf, j) = BSLASH
       THEN IF j + 1 < Len(buf) /\ At(buf, j + 1) # NL
            THEN StringBody(buf, j + 2) ELSE j
  ELSE IF At(buf, j) = QUOTE THEN j
  ELSE StringBody(buf, j + 1)

\* the closing quote is due at j
ClosingQuote(buf, j) == IF j < Len(buf) /\ At(buf, j) = QUOTE THEN j + 1 ELSE -1

\* "(?:\\.|[^"\\])*" matched at i (extract_strings, string_pattern)
MatchString(buf, i) ==
  IF ~StartsAt(buf, i, <<QUOTE>>) THEN -1
  ELSE ClosingQuote(buf, StringBody(buf, i + 1))

\* \b at position i
WordBoundary(buf, i) ==
  LET before == i > 0 /\ IsWord(At(buf, i - 1))
      after == i < Len(buf) /\ IsWord(At(buf, i))
  IN before # after

\* the end of the run of characters satisfying the identifier class from j
RECURSIVE IdentRun(_, _)
IdentRun(buf, j) ==
  IF j < Len(buf) /\ IsIdentChar(At(buf, j)) THEN IdentRun(buf, j + 1) ELSE j

RECURSIVE SpaceRun(_, _)
SpaceRun(buf, j) ==
  IF j < Len(buf) /\ IsSpace(At(buf, j)) THEN SpaceRun(buf, j + 1) ELSE j

\* the greatest e in lo..hi with \b at e, or -1: the greedy class run giving
\* characters back until the closing \b holds
RECURSIVE BackToBoundary(_, _, _)
BackToBoundary(buf, lo, hi) ==
  IF hi < lo THEN -1
  ELSE IF WordBoundary(buf, hi) THEN hi
  ELSE BackToBoundary(buf, lo, hi - 1)

\* int|char|float|double|void|bool|string|long|short
TypeKeywords == << <<"i", "n", "t">>, <<"c", "h", "a", "r">>,
                   <<"f", "l", "o", "a", "t">>,
                   <<"d", "o", "u", "b", "l", "e">>, <<"v", "o", "i", "d">>,
                   <<"b", "o", "o", "l">>,
                   <<"s", "t", "r", "i", "n", "g">>, <<"l", "o", "n", "g">>,
                   <<"s", "h", "o", "r", "t">> >>

\* [一-鿿][一-鿿_a-zA-Z0-9]*\b matched at j: the end, or -1
MatchName(buf, j) ==
  IF j < Len(buf) /\ IsChinese(At(buf, j))
  THEN BackToBoundary(buf, j + 1, IdentRun(buf, j + 1))
  ELSE -1

\* the length of the first type keyword that stands at i, or 0
KeywordAt(buf, i, ks) ==
  IF ks = {} THEN 0 ELSE Len(TypeKeywords[CHOOSE k \in ks : \A m \in ks : k <= m])

\* \*? at g
AfterStar(buf, g) == IF g < Len(buf) /\ At(buf, g) = "*" THEN g + 1 ELSE g

\* group 2 starts at g, where \s+ (from a) ended, and ends at e
DeclarationEnd(a, g, e) == IF g = a \/ e < 0 THEN <<-1, -1>> ELSE <<e, g>>

\* \s+(\*?\s*name)\b after a type keyword that ended at a
DeclarationTail(buf, a, g) ==
  DeclarationEnd(a, g, MatchName(buf, SpaceRun(buf, AfterStar(buf, g))))

\* the rest of variable_pattern after a type keyword of length n at i
AfterKeyword(buf, i, n) ==
  IF n = 0 THEN <<-1, -1>> ELSE DeclarationTail(buf, i + n, SpaceRun(buf, i + n))

\* variable_pattern matched at i: <<end, start of group 2>>, or <<-1, -1>>
MatchDeclaration(buf, i) ==
  IF ~WordBoundary(buf, i) THEN <<-1, -1>>
  ELSE AfterKeyword(buf, i,
         KeywordAt(buf, i, {k \in 1..Len(TypeKeywords) : StartsAt(buf, i, TypeKeywords[k])}))

\* variable_usage_pattern matched at i
MatchUsage(buf, i) ==
  IF ~WordBoundary(buf, i) THEN -1 ELSE MatchName(buf, i)

\* a|b: the first alternative that matches
OrElse(a, b) == IF a >= 0 THEN a ELSE b

HTML_OPEN == <<"<", "!", "-", "-">>
HTML_CLOSE == <<"-", "-", ">">>

\* one pattern of the scanner matched at i: the end offset, or -1
MatchAt(kind, buf, i) ==
  CASE kind = "hash_line" -> MatchLine(buf, i, <<"#">>)
    [] kind = "slash_line" -> MatchLine(buf, i, <<"/", "/">>)
    [] kind = "hash_or_slash_line" ->
         OrElse(MatchLine(buf, i, <<"#">>), MatchLine(buf, i, <<"/", "/">>))
    [] kind = "html_inline" -> MatchInline(buf, i, HTML_OPEN, HTML_CLOSE)
    [] kind = "html_block" -> MatchBlock(buf, i, HTML_OPEN, HTML_CLOSE)
    [] kind = "c_block" -> MatchBlock(buf, i, <<"/", "*">>, <<"*", "/">>)
    [] kind = "py_block" ->
         OrElse(MatchBlock(buf, i, <<APOS, APOS, APOS>>, <<APOS, APOS, APOS>>),
                MatchBlock(buf, i, <<QUOTE, QUOTE, QUOTE>>, <<QUOTE, QUOTE, QUOTE>>))
    [] kind = "empty" -> i
    [] kind = "string" -> MatchString(buf, i)
    [] kind = "declaration" -> MatchDeclaration(buf, i)[1]
    [] kind = "usage" -> MatchUsage(buf, i)
    [] OTHER -> -1

\* re.finditer(pattern, buf): the matches <<start, end>>, left to right and
\* not overlapping; after an empty match the search moves on by one
RECURSIVE FindIter(_, _, _)
\* the search at pos found the end e (or -1) and goes on
FoundAt(kind, buf, pos, e) ==
  IF e < 0 THEN FindIter(kind, buf, pos + 1)
  ELSE <<<<pos, e>>>> \o FindIter(kind, buf, IF e = pos THEN pos + 1 ELSE e)

\* p and e are bound to values, so that the position and the match at it
\* are computed once per step of the iteration
FindIter(kind, buf, pos) ==
  IF pos > Len(buf) THEN <<>>
  ELSE CHOOSE found \in {FoundAt(kind, buf, p, e) :
                           p \in {pos}, e \in {MatchAt(kind, buf, pos)}} : TRUE


\* -------------------------------------------------------------- scanning

\* CodeTranslator.comment_patterns
comment_patterns(ext) ==
  CASE ext = ".py" -> [single_line |-> "hash_line", multi_line |-> "py_block"]
    [] ext \in {".cpp", ".c", ".java", ".js", ".ts", ".css", ".h", ".ino"} ->
         [single_line |-> "slash_line", multi_line |-> "c_block"]
    [] ext = ".html" -> [single_line |-> "html_inline", multi_line |-> "html_block"]
    [] ext = ".php" -> [single_line |-> "hash_or_slash_line", multi_line |-> "c_block"]
    [] ext = ".md" -> [single_line |-> "empty", multi_line |-> "empty"]

SupportedExtensions ==
  {".py", ".cpp", ".c", ".java", ".js", ".ts", ".html", ".css", ".php", ".h",
   ".ino", ".md"}

\* the file types extract_identifiers works on
IdentifierExtensions == {".c", ".cpp", ".h", ".java", ".js", ".ts"}

\* sorted(spans, key=start, reverse=True): stable, so spans of equal start
\* keep the order they were appended in
RECURSIVE InsertByStartDesc(_, _)
InsertByStartDesc(sorted, x) ==
  IF sorted = <<>> THEN <<x>>
  ELSE IF Head(sorted).start >= x.start
       THEN <<Head(sorted)>> \o InsertByStartDesc(Tail(sorted), x)
       ELSE <<x>> \o sorted

RECURSIVE SortedByStartDesc(_)
SortedByStartDesc(spans) ==
  IF spans = <<>> THEN <<>>
  ELSE InsertByStartDesc(SortedByStartDesc(SubSeq(spans, 1, Len(spans) - 1)),
                         spans[Len(spans)])

\* a span, if the text that decides contains a source-script character
SpanIf(deciding, s, e, text, type, name) ==
  IF contains_chinese(deciding)
  THEN <<[start |-> s, end |-> e, text |-> text, type |-> type, name |-> name]>>
  ELSE <<>>

CommentSpan(text, m) == SpanIf(text, m[1], m[2], text, "comment", <<>>)

RECURSIVE SpansOf(_, _, _)
SpansOf(buf, matches, type) ==
  IF matches = <<>> THEN <<>>
  ELSE CommentSpan(Slice(buf, Head(matches)[1], Head(matches)[2]), Head(matches))
       \o SpansOf(buf, Tail(matches), type)

\* CodeTranslator.extract_comments
extract_comments(content, ext) ==
  IF ext \notin SupportedExtensions THEN <<>>
  ELSE SortedByStartDesc(
         SpansOf(content, FindIter(comment_patterns(ext).single_line, content, 0), "comment")
         \o SpansOf(content, FindIter(comment_patterns(ext).multi_line, content, 0), "comment"))

\* the string matches whose interior contains a source-script character
StringSpan(buf, m) ==
  SpanIf(Slice(buf, m[1] + 1, m[2] - 1), m[1], m[2], Slice(buf, m[1], m[2]),
         "string", <<>>)

RECURSIVE StringSpans(_, _)
StringSpans(buf, matches) ==
  IF matches = <<>> THEN <<>>
  ELSE StringSpan(buf, Head(matches)) \o StringSpans(buf, Tail(matches))

\* CodeTranslator.extract_strings
extract_strings(content, ext) ==
  SortedByStartDesc(StringSpans(content, FindIter("string", content, 0)))

\* the declaration matches: name is group 2, stripped
DeclarationSpan(buf, m, identifier_name) ==
  SpanIf(identifier_name, m[1], m[2], Slice(buf, m[1], m[2]),
         "variable_declaration", identifier_name)

RECURSIVE DeclarationSpans(_, _)
DeclarationSpans(buf, matches) ==
  IF matches = <<>> THEN <<>>
  ELSE DeclarationSpan(buf, Head(matches),
         Strip(Slice(buf, MatchDeclaration(buf, Head(matches)[1])[2], Head(matches)[2])))
       \o DeclarationSpans(buf, Tail(matches))

\* the window of two characters on each side of a usage match holds a quote
\* or a comment opener
InContext(context) ==
  \/ Contains(context, <<QUOTE>>)
  \/ Contains(context, <<APOS>>)
  \/ Contains(context, <<"/", "/">>)
  \/ Contains(context, <<"/", "*">>)

UsageGuard(buf, s, e) == InContext(Slice(buf, Max(0, s - 2), Min(Len(buf), e + 2)))

UsageSpan(buf, m, var_name) ==
  IF UsageGuard(buf, m[1], m[2]) THEN <<>>
  ELSE SpanIf(var_name, m[1], m[2], var_name, "variable_usage", var_name)

RECURSIVE UsageSpans(_, _)
UsageSpans(buf, matches) ==
  IF matches = <<>> THEN <<>>
  ELSE UsageSpan(buf, Head(matches), Slice(buf, Head(matches)[1], Head(matches)[2]))
       \o UsageSpans(buf, Tail(matches))

\* CodeTranslator.extract_identifiers
extract_identifiers(content, ext) ==
  IF ext \notin IdentifierExtensions THEN <<>>
  ELSE SortedByStartDesc(
         DeclarationSpans(content, FindIter("declaration", content, 0))
         \o UsageSpans(content, FindIter("usage", content, 0)))

\* the merged comment and string list of process_file's second pass
elements_to_translate(content, ext) ==
  SortedByStartDesc(extract_comments(content, ext) \o extract_strings(content, ext))

\* ------------------------------------------------- translation adapter

\* What one call of self.translator.translate does: it raises, it returns
\* its argument as it is, or it returns a text.
Raise == [kind |-> "raise", text |-> <<>>]
Echo == [kind |-> "echo", text |-> <<>>]
Text(t) == [kind |-> "text", text |-> t]

\* what the call returns when it does not raise
Result(o, arg) == IF o.kind = "echo" THEN arg ELSE o.text

\* A translation function's value: out is the text it returns, args the
\* arguments of the translator calls it made, failed whether one raised.
Value(out, args, failed) == [out |-> out, args |-> args, failed |-> failed]

\* str.split('\n')
RECURSIVE SplitLines(_)
\* the first line ends at e
SplitAt(s, e) ==
  IF e = Len(s) THEN <<s>> ELSE <<Slice(s, 0, e)>> \o SplitLines(From(s, e + 1))

SplitLines(s) == SplitAt(s, LineEnd(s, 0))

\* sep.join(parts)
RECURSIVE Join(_, _)
Join(parts, sep) ==
  IF parts = <<>> THEN <<>>
  ELSE IF Len(parts) = 1 THEN parts[1]
  ELSE parts[1] \o sep \o Join(Tail(parts), sep)

\* the end of the run of non-whitespace characters that starts t
RECURSIVE WordEnd(_, _)
WordEnd(t, k) == IF k < Len(t) /\ ~IsSpace(t[k + 1]) THEN WordEnd(t, k + 1) ELSE k

\* str.split(): the runs of non-whitespace characters
RECURSIVE SplitWords(_)
\* t starts with a word, which ends at e
WordsFrom(t, e) == <<SubSeq(t, 1, e)>> \o SplitWords(SubSeq(t, e + 1, Len(t)))

\* t has no leading whitespace
WordsOf(t) == IF t = <<>> THEN <<>> ELSE WordsFrom(t, WordEnd(t, 1))

SplitWords(s) == WordsOf(LStrip(s))

\* str.replace(c, ''): s without the character c
RECURSIVE Without(_, _)
Without(s, c) ==
  IF s = <<>> THEN <<>>
  ELSE (IF Head(s) = c THEN <<>> ELSE <<Head(s)>>) \o Without(Tail(s), c)

\* re.sub(r'[^\w\s]', '', s)
RECURSIVE DropPunctuation(_)
DropPunctuation(s) ==
  IF s = <<>> THEN <<>>
  ELSE (IF IsWord(Head(s)) \/ IsSpace(Head(s)) THEN <<Head(s)>> ELSE <<>>)
       \o DropPunctuation(Tail(s))

\* re.sub(r'\s+', '_', s)
RECURSIVE UnderscoreSpaces(_)
UnderscoreSpaces(s) ==
  IF s = <<>> THEN <<>>
  ELSE IF IsSpace(Head(s)) THEN <<"_">> \o UnderscoreSpaces(LStrip(s))
  ELSE <<Head(s)>> \o UnderscoreSpaces(Tail(s))

LowerOf(c) == CASE c = "A" -> "a" [] c = "X" -> "x" [] c = "Y" -> "y" [] OTHER -> c

\* str.lower()
Lower(s) == [k \in 1..Len(s) |-> LowerOf(s[k])]

\* original.replace(old, new), every occurrence left to right
RECURSIVE Replace(_, _, _)
Replace(s, old, new) ==
  IF old = <<>> \/ Len(s) < Len(old) THEN s
  ELSE IF StartsAt(s, 0, old) THEN new \o Replace(From(s, Len(old)), old, new)
  ELSE <<Head(s)>> \o Replace(Tail(s), old, new)

\* the name the translator is asked for: no asterisk, no outer whitespace
CleanName(chinese_name) == Strip(Without(chinese_name, "*"))

\* the translation as snake_case
SnakeCase(translated) ==
  Lower(UnderscoreSpaces(Strip(DropPunctuation(translated))))

\* a name must not start with a digit
VarPrefixed(snake_case) ==
  IF snake_case # <<>> /\ snake_case[1] \in Digits
  THEN <<"v", "a", "r", "_">> \o snake_case ELSE snake_case

\* the asterisk of the original goes back in front
Starred(chinese_name, snake_case) ==
  IF Contains(chinese_name, <<"*">>) THEN <<"*">> \o snake_case ELSE snake_case

\* CodeTranslator.translate_identifier_name; o is what the translator does
translate_identifier_name(chinese_name, o) ==
  IF o.kind = "raise" THEN Value(chinese_name, {CleanName(chinese_name)}, TRUE)
  ELSE Value(Starred(chinese_name,
                     VarPrefixed(SnakeCase(Result(o, CleanName(chinese_name))))),
             {CleanName(chinese_name)}, FALSE)

\* the declaration with its last word replaced
ReplaceLastPart(original_text, parts, chinese_name, translated_name) ==
  IF Len(parts) >= 2
  THEN Join([parts EXCEPT ![Len(parts)] = translated_name], <<" ">>)
  ELSE Replace(original_text, chinese_name, translated_name)

\* translate_identifier once translate_identifier_name has returned named
IdentifierWith(identifier_data, named) ==
  IF identifier_data.type = "variable_declaration"
  THEN Value(ReplaceLastPart(identifier_data.text, SplitWords(identifier_data.text),
                             identifier_data.name, named.out),
             named.args, named.failed)
  ELSE named

\* CodeTranslator.translate_identifier
translate_identifier(identifier_data, o) ==
  IF ~contains_chinese(identifier_data.name)
  THEN Value(identifier_data.text, {}, FALSE)
  ELSE IdentifierWith(identifier_data,
                      translate_identifier_name(identifier_data.name, o))

\* translate_string on the interior of the literal
StringWith(text, string_content, o) ==
  IF ~contains_chinese(string_content) THEN Value(text, {}, FALSE)
  ELSE IF o.kind = "raise" THEN Value(text, {string_content}, TRUE)
  ELSE Value(<<QUOTE>> \o Result(o, string_content) \o <<QUOTE>>,
             {string_content}, FALSE)

\* CodeTranslator.translate_string
translate_string(string_data, o) ==
  StringWith(string_data.text,
             Slice(string_data.text, 1, Len(string_data.text) - 1), o)

\* the lines of a block comment's content that get a translator call of
\* their own
LinesToTranslate(lines) ==
  {k \in 1..Len(lines) : contains_chinese(Strip(lines[k]))}

\* the position of line k among the lines that get a call, counted from 1
CallIndex(lines, k) == Cardinality({m \in LinesToTranslate(lines) : m <= k})

\* the first line whose call raises, or a line past the last
FirstRaise(lines, bad) ==
  IF bad = {} THEN Len(lines) + 1 ELSE CHOOSE k \in bad : \A m \in bad : k <= m

\* the block comment put together from its lines; bad are the lines whose
\* call raises
BlockOf(content, lines, out, bad) ==
  Value(<<"/", "*", NL>> \o Join(out, <<NL>>) \o <<NL, "*", "/">>,
        {content} \cup {Strip(lines[k]) :
                          k \in {m \in LinesToTranslate(lines) : m <= FirstRaise(lines, bad)}},
        bad # {})

\* the lines of a multi-line comment, each translated by a call of its own
TranslatedLines(lines, orc) ==
  [k \in 1..Len(lines) |->
     IF k \in LinesToTranslate(lines)
     THEN Result(orc[1 + CallIndex(lines, k)], Strip(lines[k]))
     ELSE lines[k]]

\* the multi-line branch of translate_comment: orc[1] is the call on the
\* whole content, orc[1 + n] the call on the n-th line that is translated
BlockLines(content, lines, orc) ==
  BlockOf(content, lines, TranslatedLines(lines, orc),
          {k \in LinesToTranslate(lines) : orc[1 + CallIndex(lines, k)].kind = "raise"})

translate_block_lines(content, orc) == BlockLines(content, SplitLines(content), orc)

\* self.translator.translate(content) wrapped as prefix + result + suffix
Wrapped(prefix, content, suffix, o) ==
  Value(prefix \o Result(o, content) \o suffix, {content}, o.kind = "raise")

EndsWith(s, p) == Len(s) >= Len(p) /\ StartsAt(s, Len(s) - Len(p), p)

\* a comment with delimiters: translated if its content needs it
Delimited(comment_text, prefix, content, suffix, o) ==
  IF contains_chinese(content) THEN Wrapped(prefix, content, suffix, o)
  ELSE Value(comment_text, {}, FALSE)

\* the /* */ branch of translate_comment
BlockComment(comment_text, content, orc) ==
  IF ~contains_chinese(content) THEN Value(comment_text, {}, FALSE)
  ELSE IF orc[1].kind = "raise" THEN Value(comment_text, {content}, TRUE)
  ELSE IF Contains(comment_text, <<NL>>) THEN translate_block_lines(content, orc)
  ELSE Wrapped(<<"/", "*", " ">>, content, <<" ", "*", "/">>, orc[1])

\* CodeTranslator.translate_comment; an exception leaves it (failed)
translate_comment(comment_text, orc) ==
  IF StartsAt(comment_text, 0, <<"#">>)
  THEN Delimited(comment_text, <<"#", " ">>, LStrip(From(comment_text, 1)), <<>>, orc[1])
  ELSE IF StartsAt(comment_text, 0, <<"/", "/">>)
  THEN Delimited(comment_text, <<"/", "/", " ">>, LStrip(From(comment_text, 2)), <<>>,
                 orc[1])
  ELSE IF StartsAt(comment_text, 0, <<"/", "*">>) /\ EndsWith(comment_text, <<"*", "/">>)
  THEN BlockComment(comment_text,
                    Strip(Slice(comment_text, 2, Len(comment_text) - 2)), orc)
  ELSE IF StartsAt(comment_text, 0, HTML_OPEN) /\ EndsWith(comment_text, HTML_CLOSE)
  THEN Delimited(comment_text, HTML_OPEN \o <<" ">>,
                 Strip(Slice(comment_text, 4, Len(comment_text) - 3)),
                 <<" ">> \o HTML_CLOSE, orc[1])
  ELSE Value(comment_text, {}, FALSE)

\* the except clause of translate_text: a comment whose translation raised
\* is returned as it was
Caught(span, v) ==
  IF v.failed /\ span.type \in {"comment", "string"}
  THEN Value(span.text, v.args, TRUE) ELSE v

\* CodeTranslator.translate_text for one span
translate_text(span, orc) ==
  Caught(span,
         IF span.type = "comment" THEN translate_comment(span.text, orc)
         ELSE IF span.type = "string" THEN translate_string(span, orc[1])
         ELSE IF span.type \in {"variable_declaration", "variable_usage"}
              THEN translate_identifier(span, orc[1])
         ELSE Value(span.text, {}, FALSE))

\* the number of translator calls translate_text can make for a span
CallsFor(span) ==
  IF /\ span.type = "comment"
     /\ StartsAt(span.text, 0, <<"/", "*">>)
     /\ Contains(span.text, <<NL>>)
  THEN 1 + Cardinality(LinesToTranslate(
             SplitLines(Strip(Slice(span.text, 2, Len(span.text) - 2)))))
  ELSE 1

\* ------------------------------------------------------------ the state

VARIABLES
  disk,                   \* the files of the directory: [ext, data] each
  translator,             \* AnyAnswer, or the one thing the translator always does
  runs_left,              \* how many more times the tool is run afterwards
  pc,                     \* where process_directory / process_file stands
  idx,                    \* the file process_file is working on (0: none yet)
  total_files, processed_files, translated_comments, translated_strings,
  translated_markdown, translated_identifiers,
  original_content,       \* process_file: the buffer read
  content,                \* the working buffer of the identifier pass
  new_content,            \* the working buffer of the second pass; what is written
  identifiers,            \* the identifier spans not yet handled
  elements,               \* the comment and string spans not yet handled
  changes_made,
  lines, line_no, translated_count,   \* process_markdown_file
  outcome,                \* per file: Pending, Written, Skipped or Failed
  visits,                 \* per file: the calls of process_file
  writes,                 \* per file: the times its data was written
  first_disk,             \* the files as they were before the first run
  run_disk,               \* the files as they were when this run started
  run_no,
  prev_outcome,           \* per file: its outcome in the run before this one
  stats_before,           \* the counters as they were when process_file was called
  sent,                   \* the texts given to the translator for this file
  last,                   \* the span handled last: span, orc, out, failed,
                          \* and the working buffer before it
  p_orig, p_all, p_todo, p_buf    \* the patch loop on its own

\* the counters a file's processing can change
statistics == <<translated_comments, translated_strings, translated_identifiers,
                translated_markdown, processed_files>>

counters == <<total_files, processed_files, translated_comments,
              translated_strings, translated_markdown, translated_identifiers>>
file_locals == <<original_content, content, new_content, identifiers, elements,
                 changes_made, lines, line_no, translated_count>>
history == <<outcome, visits, writes, first_disk, run_disk, run_no, prev_outcome,
             stats_before,
             sent, last>>
patch_vars == <<p_orig, p_all, p_todo, p_buf>>
vars == <<disk, translator, runs_left, pc, idx, counters, file_locals, history,
          patch_vars>>

\* -------------------------------------------------------------- the bounds

\* the pieces a generated buffer is put together from, and how many
MaxPieces == 3
\* the files of a directory in the specification of the file loop
MaxFiles == 2
\* the pieces of a buffer in the specification of declarations
MaxDeclarationPieces == 5
\* the pieces of a buffer in the specification of the repeated run
MaxRerunPieces == 5
\* the patch loop on its own: the buffer's length and the replacements
MaxPatchLen == 5
MaxPatchSpans == 2

INT == <<"i", "n", "t", " ">>

\* the tokens of each file type that the generated buffers are made of
PiecesOf(ext) ==
  CASE ext = ".c" -> {INT, <<ZH>>, <<" ">>, <<NL>>, <<"*">>, <<"/", "/">>,
                      <<"/", "*">>, <<"*", "/">>, <<QUOTE>>, <<"a">>}
    [] ext = ".py" -> {<<"#">>, <<ZH>>, <<" ">>, <<NL>>, <<QUOTE>>, <<"a">>}
    [] ext = ".html" -> {<<"<", "!", "-", "-">>, <<"-", "-", ">">>, <<ZH>>,
                         <<" ">>, <<NL>>, <<QUOTE>>, <<"a">>}
    [] ext = ".md" -> {<<ZH>>, <<"a">>, <<NL>>, <<" ">>}
    [] OTHER -> {<<ZH>>, <<"a">>}

RECURSIVE BuffersOf(_, _)
BuffersOf(pieces, n) ==
  IF n = 0 THEN {<<>>}
  ELSE LET shorter == BuffersOf(pieces, n - 1)
       IN shorter \cup {b \o q : b \in shorter, q \in pieces}

\* what the translator may answer to one call
Results == {<<>>, <<"x">>, <<"X", " ", "y">>, <<"a", NL, "b">>}
Outcomes == {Raise, Echo} \cup {Text(t) : t \in Results}
AnyAnswer == [kind |-> "any", text |-> <<>>]

\* the answers that hold no source-script character and no line break
PlainOutcomes == {Text(<<>>), Text(<<"x">>), Text(<<"X", " ", "y">>)}

\* what a call may do in this run
Answers == IF translator = AnyAnswer THEN Outcomes ELSE {translator}

NoSpan == [start |-> 0, end |-> 0, text |-> <<>>, type |-> "none", name |-> <<>>]
NoLast == [span |-> NoSpan, orc |-> <<>>, out |-> <<>>, failed |-> FALSE,
           before |-> <<>>]

FilesOf(exts, n) ==
  UNION {{[ext |-> e, data |-> b] : b \in BuffersOf(PiecesOf(e), n)} : e \in exts}

Directories(files, counts) == UNION {[1..n -> files] : n \in counts}

\* the state a run starts in, whatever the directory holds
InitWith(dirs, translators, runs) ==
  /\ disk \in dirs
  /\ translator \in translators
  /\ runs_left = runs
  /\ pc = "start"
  /\ idx = 0
  /\ total_files = 0 /\ processed_files = 0 /\ translated_comments = 0
  /\ translated_strings = 0 /\ translated_markdown = 0
  /\ translated_identifiers = 0
  /\ original_content = <<>> /\ content = <<>> /\ new_content = <<>>
  /\ identifiers = <<>> /\ elements = <<>> /\ changes_made = FALSE
  /\ lines = <<>> /\ line_no = 0 /\ translated_count = 0
  /\ outcome = [i \in 1..Len(disk) |-> "Pending"]
  /\ visits = [i \in 1..Len(disk) |-> 0]
  /\ writes = [i \in 1..Len(disk) |-> 0]
  /\ first_disk = disk
  /\ run_disk = disk
  /\ run_no = 1
  /\ prev_outcome = [i \in 1..Len(disk) |-> "Pending"]
  /\ stats_before = <<0, 0, 0, 0, 0>>
  /\ sent = {}
  /\ last = NoLast
  /\ p_orig = <<>> /\ p_all = <<>> /\ p_todo = <<>> /\ p_buf = <<>>

\* one file of any of four file types, any translator behaviour per call
Init == InitWith(Directories(FilesOf({".c", ".py", ".html", ".md"}, MaxPieces), {1}),
                 {AnyAnswer}, 0)

\* ---------------------------------------------------------- process_file

\* a substitution that loses the character after the span
SubstituteDroppingOne(buf, span, translated) ==
  Slice(buf, 0, span.start) \o translated \o From(buf, span.end + 1)

\* buf[:start] + translated + buf[end:], the substitution of both patch loops
Substitute(buf, span, translated) ==
  Slice(buf, 0, span.start) \o translated \o From(buf, span.end)

ResetLocals ==
  /\ original_content' = <<>> /\ content' = <<>> /\ new_content' = <<>>
  /\ identifiers' = <<>> /\ elements' = <<>> /\ changes_made' = FALSE
  /\ lines' = <<>> /\ line_no' = 0 /\ translated_count' = 0
  /\ sent' = {} /\ last' = NoLast

\* process_file returns: the file's outcome is known, the loop goes on
EndFile(result) ==
  /\ outcome' = [outcome EXCEPT ![idx] = result]
  /\ pc' = "walk"
  /\ ResetLocals

\* process_directory up to its loop: count the files, give up on none
StartDirectory ==
  /\ pc = "start"
  /\ total_files' = Cardinality({i \in 1..Len(disk) : disk[i].ext \in SupportedExtensions})
  /\ pc' = IF total_files' = 0 THEN "nofiles" ELSE "walk"
  /\ UNCHANGED <<disk, translator, runs_left, idx, processed_files,
                 translated_comments, translated_strings, translated_markdown,
                 translated_identifiers, file_locals, history, patch_vars>>

\* the loop of process_directory takes the next file; process_file is
\* called on a file of a supported type
NextFile ==
  /\ pc = "walk"
  /\ idx < Len(disk)
  /\ idx' = idx + 1
  /\ IF disk[idx'].ext \in SupportedExtensions
     THEN /\ pc' = "read"
          /\ visits' = [visits EXCEPT ![idx'] = @ + 1]
          /\ stats_before' = statistics
     ELSE /\ pc' = "walk"
          /\ UNCHANGED <<visits, stats_before>>
  /\ UNCHANGED <<disk, translator, runs_left, counters, file_locals, outcome,
                 writes, first_disk, run_disk, run_no, prev_outcome, sent, last,
                 patch_vars>>

\* the loop is over: the final statistics are printed
Finish ==
  /\ pc = "walk"
  /\ idx = Len(disk)
  /\ pc' = "final"
  /\ UNCHANGED <<disk, translator, runs_left, idx, counters, file_locals,
                 history, patch_vars>>

\* open and read the file; a markdown file goes to the line mode, any
\* other to the identifier pass
ReadFile ==
  /\ pc = "read"
  /\ original_content' = disk[idx].data
  /\ IF disk[idx].ext = ".md"
     THEN /\ lines' = SplitLines(disk[idx].data)
          /\ line_no' = 1
          /\ pc' = "md"
          /\ UNCHANGED <<content, identifiers>>
     ELSE /\ content' = disk[idx].data
          /\ identifiers' = extract_identifiers(disk[idx].data, disk[idx].ext)
          /\ pc' = "ident"
          /\ UNCHANGED <<lines, line_no>>
  /\ UNCHANGED <<disk, translator, runs_left, idx, counters, new_content,
                 elements, changes_made, translated_count, history, patch_vars>>

\* process_file without its except clause: the exception ends the run
ReadEscapes ==
  /\ pc = "read"
  /\ pc' = "crashed"
  /\ UNCHANGED <<disk, translator, runs_left, idx, counters, file_locals,
                 history, patch_vars>>

\* open or read raises: caught at the end of process_file
ReadFails ==
  /\ pc = "read"
  /\ EndFile("Failed")
  /\ UNCHANGED <<disk, translator, runs_left, idx, counters, visits, writes,
                 first_disk, run_disk, run_no, prev_outcome,
                 stats_before, patch_vars>>

\* the body of the identifier loop, v being what translate_text returned
IdentifierTurn(identifier, orc, v) ==
  /\ content' = IF v.out # identifier.text THEN Substitute(content, identifier, v.out)
                ELSE content
  /\ translated_identifiers' = translated_identifiers
       + (IF v.out # identifier.text THEN 1 ELSE 0)
  /\ changes_made' = (changes_made \/ v.out # identifier.text)
  /\ sent' = sent \cup v.args
  /\ last' = [span |-> identifier, orc |-> orc, out |-> v.out, failed |-> v.failed,
              before |-> content]

\* one turn of the identifier loop
TranslateIdentifier ==
  /\ pc = "ident"
  /\ identifiers # <<>>
  /\ \E orc \in [1..CallsFor(Head(identifiers)) -> Answers] :
       IdentifierTurn(Head(identifiers), orc, translate_text(Head(identifiers), orc))
  /\ identifiers' = Tail(identifiers)
  /\ UNCHANGED <<disk, translator, runs_left, pc, idx, total_files,
                 processed_files, translated_comments, translated_strings,
                 translated_markdown, original_content, new_content, elements,
                 lines, line_no, translated_count, outcome, visits, writes,
                 first_disk, run_disk, run_no, prev_outcome,
                 stats_before, patch_vars>>

\* a process_file that saves the buffer between its two passes
SaveBetweenPasses ==
  /\ pc = "ident"
  /\ identifiers = <<>>
  /\ elements' = elements_to_translate(content, disk[idx].ext)
  /\ new_content' = content
  /\ disk' = [disk EXCEPT ![idx].data = content]
  /\ pc' = "elems"
  /\ UNCHANGED <<translator, runs_left, idx, counters, original_content,
                 content, identifiers, changes_made, lines, line_no,
                 translated_count, history, patch_vars>>

\* the identifier loop is over: comments and strings are taken from the
\* buffer it left
ScanCommentsStrings ==
  /\ pc = "ident"
  /\ identifiers = <<>>
  /\ elements' = elements_to_translate(content, disk[idx].ext)
  /\ new_content' = content
  /\ pc' = "elems"
  /\ UNCHANGED <<disk, translator, runs_left, idx, counters, original_content,
                 content, identifiers, changes_made, lines, line_no,
                 translated_count, history, patch_vars>>

\* the body of the second loop, v being what translate_text returned
ElementTurn(element, orc, v) ==
  /\ new_content' = IF v.out # element.text THEN Substitute(new_content, element, v.out)
                    ELSE new_content
  /\ translated_comments' = translated_comments
       + (IF v.out # element.text /\ element.type = "comment" THEN 1 ELSE 0)
  /\ translated_strings' = translated_strings
       + (IF v.out # element.text /\ element.type # "comment" THEN 1 ELSE 0)
  /\ changes_made' = (changes_made \/ v.out # element.text)
  /\ sent' = sent \cup v.args
  /\ last' = [span |-> element, orc |-> orc, out |-> v.out, failed |-> v.failed,
              before |-> new_content]

\* one turn of the comment and string loop
TranslateElement ==
  /\ pc = "elems"
  /\ elements # <<>>
  /\ \E orc \in [1..CallsFor(Head(elements)) -> Answers] :
       ElementTurn(Head(elements), orc, translate_text(Head(elements), orc))
  /\ elements' = Tail(elements)
  /\ UNCHANGED <<disk, translator, runs_left, pc, idx, total_files,
                 processed_files, translated_markdown, translated_identifiers,
                 original_content, content, identifiers, lines, line_no,
                 translated_count, outcome, visits, writes, first_disk,
                 run_disk, run_no, prev_outcome,
                 stats_before, patch_vars>>

\* both loops are over: save only if something changed
Decide ==
  /\ pc = "elems"
  /\ elements = <<>>
  /\ IF changes_made /\ new_content # original_content
     THEN /\ pc' = "open"
          /\ UNCHANGED <<file_locals, history>>
     ELSE /\ EndFile("Skipped")
          /\ UNCHANGED <<visits, writes, first_disk, run_disk, run_no, prev_outcome,
                         stats_before>>
  /\ UNCHANGED <<disk, translator, runs_left, idx, counters, patch_vars>>

\* a line with source-script characters is translated in place, unless
\* the call raises
LineTurn(line, o) ==
  /\ lines' = IF o.kind = "raise" THEN lines
              ELSE [lines EXCEPT ![line_no] = Result(o, line)]
  /\ translated_count' = translated_count + (IF o.kind = "raise" THEN 0 ELSE 1)
  /\ translated_markdown' = translated_markdown + (IF o.kind = "raise" THEN 0 ELSE 1)
  /\ sent' = sent \cup {line}
  /\ last' = [span |-> [start |-> line_no, end |-> line_no, text |-> line,
                        type |-> "markdown_line", name |-> <<>>],
              orc |-> <<o>>,
              out |-> IF o.kind = "raise" THEN line ELSE Result(o, line),
              failed |-> o.kind = "raise",
              before |-> line]

\* one turn of the loop of process_markdown_file
TranslateLine ==
  /\ pc = "md"
  /\ line_no <= Len(lines)
  /\ IF contains_chinese(lines[line_no])
     THEN \E o \in Answers : LineTurn(lines[line_no], o)
     ELSE UNCHANGED <<lines, translated_count, translated_markdown, sent, last>>
  /\ line_no' = line_no + 1
  /\ UNCHANGED <<disk, translator, runs_left, pc, idx, total_files,
                 processed_files, translated_comments, translated_strings,
                 translated_identifiers, original_content, content, new_content,
                 identifiers, elements, changes_made, outcome, visits, writes,
                 first_disk, run_disk, run_no, prev_outcome,
                 stats_before, patch_vars>>

\* the lines are joined; the file is written if a line was translated
MarkdownDecide ==
  /\ pc = "md"
  /\ line_no > Len(lines)
  /\ IF translated_count > 0
     THEN /\ new_content' = Join(lines, <<NL>>)
          /\ pc' = "open"
          /\ UNCHANGED <<original_content, content, identifiers, elements,
                         changes_made, lines, line_no, translated_count, history>>
     ELSE /\ EndFile("Skipped")
          /\ UNCHANGED <<visits, writes, first_disk, run_disk, run_no, prev_outcome,
                         stats_before>>
  /\ UNCHANGED <<disk, translator, runs_left, idx, counters, patch_vars>>

\* open(file_path, 'w') truncates the file
OpenForWrite ==
  /\ pc = "open"
  /\ disk' = [disk EXCEPT ![idx].data = <<>>]
  /\ pc' = "write"
  /\ UNCHANGED <<translator, runs_left, idx, counters, file_locals, history,
                 patch_vars>>

\* open(file_path, 'w') raises: nothing was touched
OpenFails ==
  /\ pc = "open"
  /\ EndFile("Failed")
  /\ UNCHANGED <<disk, translator, runs_left, idx, counters, visits, writes,
                 first_disk, run_disk, run_no, prev_outcome,
                 stats_before, patch_vars>>

\* f.write(new_content), the file is closed, processed_files counts it
WriteFile ==
  /\ pc = "write"
  /\ disk' = [disk EXCEPT ![idx].data = new_content]
  /\ writes' = [writes EXCEPT ![idx] = @ + 1]
  /\ processed_files' = processed_files + 1
  /\ EndFile("Written")
  /\ UNCHANGED <<translator, runs_left, idx, total_files, translated_comments,
                 translated_strings, translated_markdown, translated_identifiers,
                 visits, first_disk, run_disk, run_no, prev_outcome,
                 stats_before, patch_vars>>

\* f.write raises after the file was truncated
WriteFails ==
  /\ pc = "write"
  /\ EndFile("Failed")
  /\ UNCHANGED <<disk, translator, runs_left, idx, counters, visits, writes,
                 first_disk, run_disk, run_no, prev_outcome,
                 stats_before, patch_vars>>

\* the tool is started again on the same directory
Rerun ==
  /\ pc \in {"final", "nofiles"}
  /\ runs_left > 0
  /\ runs_left' = runs_left - 1
  /\ pc' = "start"
  /\ idx' = 0
  /\ total_files' = 0 /\ processed_files' = 0 /\ translated_comments' = 0
  /\ translated_strings' = 0 /\ translated_markdown' = 0
  /\ translated_identifiers' = 0
  /\ outcome' = [i \in 1..Len(disk) |-> "Pending"]
  /\ visits' = [i \in 1..Len(disk) |-> 0]
  /\ writes' = [i \in 1..Len(disk) |-> 0]
  /\ run_disk' = disk
  /\ run_no' = run_no + 1
  /\ prev_outcome' = outcome
  /\ UNCHANGED <<disk, translator, file_locals, first_disk, stats_before, sent,
                 last, patch_vars>>

Next ==
  \/ StartDirectory \/ NextFile \/ Finish
  \/ ReadFile \/ ReadFails
  \/ TranslateIdentifier \/ ScanCommentsStrings \/ TranslateElement \/ Decide
  \/ TranslateLine \/ MarkdownDecide
  \/ OpenForWrite \/ OpenFails \/ WriteFile \/ WriteFails

Spec == Init /\ [][Next]_vars

\* ------------------------------------------------- the file loop alone

\* the files a directory is made of: a name, a line comment, a document,
\* and a file of no supported type
DirFiles ==
  {[ext |-> ".c", data |-> <<ZH>>],
   [ext |-> ".py", data |-> <<"#", ZH>>],
   [ext |-> ".md", data |-> <<ZH>>],
   [ext |-> ".txt", data |-> <<ZH>>]}

\* a directory of up to MaxFiles files, among them files of no supported type
InitDir == InitWith(Directories(DirFiles, 0..MaxFiles), {AnyAnswer}, 0)

\* process_directory and process_file are sequential code: a step that can
\* be taken is taken
SpecDir == InitDir /\ [][Next]_vars /\ WF_vars(Next)

\* ------------------------------------------- declarations, at length

DeclarationPieces == {INT, <<ZH>>, <<" ">>, <<"*">>, <<"/", "/">>}

DeclarationFiles ==
  {[ext |-> ".c", data |-> b] : b \in BuffersOf(DeclarationPieces, MaxDeclarationPieces)}
  \cup FilesOf({".md"}, 2)

\* one .c file of declarations, pointer markers, names and line comments,
\* longer than the files of Init, or one short .md file
InitDeclarations == InitWith(Directories(DeclarationFiles, {1}), {AnyAnswer}, 0)

SpecDeclarations == InitDeclarations /\ [][Next]_vars

\* ------------------------------------------------------ the repeated run

RerunPieces == {<<"/", "/">>, <<ZH>>, <<QUOTE>>, <<NL>>}

RerunFiles ==
  {[ext |-> e, data |-> b] :
     e \in {".c", ".md"}, b \in BuffersOf(RerunPieces, MaxRerunPieces)}

\* one file, a translator that answers every call with the same plain text,
\* and the tool run twice
InitRerun == InitWith(Directories(RerunFiles, {1}), PlainOutcomes, 1)

NextRerun == Next \/ Rerun

SpecRerun == InitRerun /\ [][NextRerun]_vars

\* ------------------------------------------------ the patch loop alone

PatchTexts == {<<>>, <<"a">>, <<"x", "y", "z">>}

\* the replacements of buf that end at or before limit
ReplacementsBefore(buf, limit) ==
  UNION {{[start |-> b, end |-> e, text |-> Slice(buf, b, e), new |-> t] :
            b \in 0..(e - 1), t \in PatchTexts} : e \in 1..limit}

\* the lists of up to n replacements, descending by start and pairwise not
\* overlapping, all ending at or before limit
RECURSIVE ReplacementLists(_, _, _)
ReplacementLists(buf, limit, n) ==
  IF n = 0 THEN {<<>>}
  ELSE {<<>>} \cup
       UNION {{<<r>> \o rest : rest \in ReplacementLists(buf, r.start, n - 1)} :
                r \in ReplacementsBefore(buf, limit)}

\* the loop "for r in replacements: if translated != original_text:
\* buf = buf[:start] + translated + buf[end:]" on a list of its own
InitPatch ==
  /\ disk = <<>>
  /\ translator = AnyAnswer
  /\ runs_left = 0
  /\ pc = "patch"
  /\ idx = 0
  /\ total_files = 0 /\ processed_files = 0 /\ translated_comments = 0
  /\ translated_strings = 0 /\ translated_markdown = 0
  /\ translated_identifiers = 0
  /\ original_content = <<>> /\ content = <<>> /\ new_content = <<>>
  /\ identifiers = <<>> /\ elements = <<>> /\ changes_made = FALSE
  /\ lines = <<>> /\ line_no = 0 /\ translated_count = 0
  /\ outcome = <<>> /\ visits = <<>> /\ writes = <<>>
  /\ first_disk = <<>> /\ run_disk = <<>> /\ run_no = 1
  /\ prev_outcome = <<>> /\ stats_before = <<0, 0, 0, 0, 0>>
  /\ sent = {} /\ last = NoLast
  /\ p_orig \in BuffersOf({<<"a">>, <<"b">>}, MaxPatchLen)
  /\ p_all \in ReplacementLists(p_orig, Len(p_orig), MaxPatchSpans)
  /\ p_todo = p_all
  /\ p_buf = p_orig

\* one turn of the patch loop
PatchTurn ==
  /\ pc = "patch"
  /\ p_todo # <<>>
  /\ p_buf' = IF Head(p_todo).new # Head(p_todo).text
              THEN Substitute(p_buf, Head(p_todo), Head(p_todo).new)
              ELSE p_buf
  /\ p_todo' = Tail(p_todo)
  /\ UNCHANGED <<disk, translator, runs_left, pc, idx, counters, file_locals,
                 history, p_orig, p_all>>

NextPatch == PatchTurn

SpecPatch == InitPatch /\ [][NextPatch]_vars

\* ------------------------------------------------------------ the claims

Overlap(a, b) == a.start < b.end /\ b.start < a.end

PairwiseDisjoint(spans) ==
  \A j, k \in 1..Len(spans) : j < k => ~Overlap(spans[j], spans[k])

DescendingByStart(spans) ==
  \A j, k \in 1..Len(spans) : j < k => spans[j].start >= spans[k].start

\* the span handled last was substituted into the working buffer
Substituted == last.span.type \notin {"none", "markdown_line"} /\ last.out # last.span.text

\* the working buffer of the pass the span handled last belongs to
WorkingBuffer ==
  IF last.span.type \in {"variable_declaration", "variable_usage"} THEN content
  ELSE new_content

\* C1: in both passes of process_file the spans are taken in descending
\* order of start, and when a span is substituted the working buffer still
\* holds the span's extracted text at [start:end].
C1_OffsetValidity ==
  /\ pc = "ident" => DescendingByStart(identifiers)
  /\ pc = "elems" => DescendingByStart(elements)
  /\ Substituted =>
       Slice(last.before, last.span.start, last.span.end) = last.span.text

\* buf with the replacements of spans (descending by start) made from the
\* right: what lies right of a span is kept, the span gives way to its new
\* text, what lies left of it is treated the same way
RECURSIVE Replaced(_, _)
Replaced(buf, spans) ==
  IF spans = <<>> THEN buf
  ELSE Replaced(Slice(buf, 0, Head(spans).start), Tail(spans))
       \o Head(spans).new \o From(buf, Head(spans).end)

\* C2: for a descending list of pairwise non-overlapping replacements the
\* slice-substitution loop keeps every pending span's offsets valid and ends
\* with the buffer in which each span gave way to its new text and every
\* character outside the spans is unchanged and in place.
C2_ByteExactOutsideSpans ==
  pc = "patch" =>
    /\ \A k \in 1..Len(p_todo) :
         Slice(p_buf, p_todo[k].start, p_todo[k].end) = p_todo[k].text
    /\ p_todo = <<>> => p_buf = Replaced(p_orig, p_all)

\* two replacements that change the length, with characters before, between
\* and after them, have been applied
C2_Witness ==
  /\ pc = "patch" /\ p_todo = <<>> /\ Len(p_all) = 2
  /\ Len(p_all[1].new) # Len(p_all[1].text)
  /\ Len(p_all[2].new) # Len(p_all[2].text)
  /\ 0 < p_all[2].start /\ p_all[2].end < p_all[1].start
  /\ p_all[1].end < Len(p_orig)
  /\ p_buf # p_orig

\* C3: a span whose translation raised is still in the working buffer as it
\* was, at its place, and the file's processing goes on.
C3_FallbackSafety ==
  (last.failed /\ last.span.type # "markdown_line"
     /\ Slice(last.before, last.span.start, last.span.end) = last.span.text) =>
    /\ Slice(WorkingBuffer, last.span.start, last.span.end) = last.span.text
    /\ outcome[idx] = "Pending"

\* the matches of both comment rules of the file type in buf
CommentMatches(buf, ext) ==
  LET one == FindIter(comment_patterns(ext).single_line, buf, 0)
      multi == FindIter(comment_patterns(ext).multi_line, buf, 0)
  IN {[start |-> one[k][1], end |-> one[k][2]] : k \in 1..Len(one)}
     \cup {[start |-> multi[k][1], end |-> multi[k][2]] : k \in 1..Len(multi)}

\* the spans of buf that hold source-script characters
ScriptSpans(buf, ext) ==
  LET ids == extract_identifiers(buf, ext)
      els == elements_to_translate(buf, ext)
  IN {ids[k] : k \in 1..Len(ids)} \cup {els[k] : k \in 1..Len(els)}

\* the comments of buf without a source-script character that touch no span
\* with one
PlainComments(buf, ext) ==
  {m \in CommentMatches(buf, ext) :
     /\ m.end > m.start
     /\ ~contains_chinese(Slice(buf, m.start, m.end))
     /\ \A sp \in ScriptSpans(buf, ext) : ~Overlap(m, sp)}

\* C4: nothing without a source-script character is given to the
\* translator, and a comment without one is found unchanged in the buffer
\* process_file ends with.
C4_ScriptGating ==
  /\ \A t \in sent : contains_chinese(t)
  /\ (pc = "elems" /\ elements = <<>>) =>
       \A m \in PlainComments(original_content, disk[idx].ext) :
         Contains(new_content, Slice(original_content, m.start, m.end))

\* C5: when the first run ended without a failure and the translator's
\* answers hold no source-script character, the second run substitutes
\* nothing, writes nothing and leaves every file as the first run left it.
C5_Idempotence ==
  (run_no = 2 /\ \A i \in 1..Len(disk) : prev_outcome[i] \in {"Written", "Skipped"}) =>
    /\ \A i \in 1..Len(disk) : disk[i].data = run_disk[i].data /\ writes[i] = 0
    /\ translated_comments = 0 /\ translated_strings = 0
    /\ translated_identifiers = 0 /\ translated_markdown = 0
    /\ ~changes_made

\* the identifier token a declaration ends with
TrailingName(span) == CleanName(span.name)

\* the name translate_identifier_name makes of the translator's answer,
\* without a pointer marker
BareName(span, o) == VarPrefixed(SnakeCase(Result(o, TrailingName(span))))

\* C6: a translated declaration is the matched text with everything before
\* the trailing identifier token kept as it was and the token replaced by
\* the translated name.
C6_DeclarationPreserved ==
  (last.span.type = "variable_declaration" /\ ~last.failed) =>
    last.out = Slice(last.span.text, 0,
                     Len(last.span.text) - Len(TrailingName(last.span)))
               \o BareName(last.span, last.orc[1])

\* C7: when the line loop of a .md file is over, the text to be written has
\* as many lines as the text read, and every line without a source-script
\* character is the line read.
C7_LineMode ==
  (pc = "md" /\ line_no > Len(lines)) =>
    /\ Len(SplitLines(Join(lines, <<NL>>))) = Len(SplitLines(original_content))
    /\ \A k \in 1..Len(lines) :
         ~contains_chinese(SplitLines(original_content)[k]) =>
           lines[k] = SplitLines(original_content)[k]

\* C8: a file is written at most once per run; until the write is reached
\* the file on disk is what it was when the run started; a skipped file is
\* never touched; and the write is reached only with every loop of the file
\* finished.
C8_NoHalfTranslatedFile ==
  /\ \A i \in 1..Len(disk) :
       /\ writes[i] <= 1
       /\ outcome[i] = "Skipped" => disk[i].data = run_disk[i].data
       /\ writes[i] = 0 /\ outcome[i] = "Pending" /\ ~(i = idx /\ pc = "write") =>
            disk[i].data = run_disk[i].data
  /\ pc \in {"read", "ident", "elems", "md", "open"} =>
       disk[idx].data = run_disk[idx].data /\ writes[idx] = 0
  /\ pc \in {"open", "write"} =>
       /\ identifiers = <<>> /\ elements = <<>>
       /\ disk[idx].ext = ".md" => line_no > Len(lines)

\* the second pass stands on a buffer the identifier pass has changed, with
\* a span still to translate, and the file on disk is as it was
C8_Witness ==
  /\ pc = "elems" /\ elements # <<>>
  /\ new_content # original_content
  /\ disk[idx].data = original_content

Terminal == {"Written", "Skipped", "Failed"}

\* the loop of process_directory is over, each file of a supported type was
\* handed to process_file once and has its outcome
AllProcessed ==
  /\ pc = "final"
  /\ \A i \in 1..Len(disk) :
       IF disk[i].ext \in SupportedExtensions
       THEN visits[i] = 1 /\ outcome[i] \in Terminal
       ELSE visits[i] = 0 /\ outcome[i] = "Pending"

\* C9: a run that found a file to process ends at its final statistics with
\* every file of a supported type processed exactly once and in a terminal
\* outcome, whatever failed on the way.
C9_ContainmentAndProgress ==
  (pc = "start" /\ \E i \in 1..Len(disk) : disk[i].ext \in SupportedExtensions)
    ~> AllProcessed

\* the run ended with the first file failed and the one after it written
C9_Witness ==
  /\ AllProcessed /\ Len(disk) = 2
  /\ outcome[1] = "Failed" /\ outcome[2] = "Written"

\* C10: the replacements one pass applies against one buffer snapshot are
\* pairwise non-overlapping: the identifier list, and the merged comment and
\* string list.
C10_NonOverlap ==
  /\ pc = "ident" => PairwiseDisjoint(identifiers)
  /\ pc = "elems" => PairwiseDisjoint(elements)

\* C11: when process_file has ended for a file with an outcome other than
\* Written, every counter equals its value at the moment process_file was
\* called for that file.
C11_StatisticsOnlyOnWritten ==
  (idx > 0 /\ pc \in {"walk", "final"} /\ outcome[idx] \in {"Skipped", "Failed"}) =>
    statistics = stats_before

\* a token with a character a name can be made of
HasNameCharacter(token) == \E k \in 1..Len(token) : IsWord(token[k])

\* what translate_identifier_name returned for the identifier handled last
LastName == translate_identifier_name(last.span.name, last.orc[1])

\* C12: whatever the translator answers, the token translate_identifier_name
\* returns holds a name character besides any pointer marker, and when the
\* call raises it is the original name.
C12_NameNeverEmpty ==
  last.span.type \in {"variable_declaration", "variable_usage"} =>
    /\ HasNameCharacter(LastName.out)
    /\ last.orc[1].kind = "raise" => LastName.out = last.span.name

\* the string literals of buf, as the string pattern of extract_strings
\* matches them
StringMatches(buf) ==
  LET found == FindIter("string", buf, 0)
  IN {[start |-> found[k][1], end |-> found[k][2]] : k \in 1..Len(found)}

\* span lies inside the match m
Inside(span, m) == m.start <= span.start /\ span.end <= m.end

\* C13: an identifier usage the identifier pass substitutes lies in no
\* comment and in no string literal of the buffer it was extracted from.
C13_NoRenameInLiteralsOrComments ==
  (Substituted /\ last.span.type = "variable_usage") =>
    /\ \A m \in CommentMatches(original_content, disk[idx].ext) : ~Inside(last.span, m)
    /\ \A m \in StringMatches(original_content) : ~Inside(last.span, m)

=============================================================================
